---- MODULE Spec2Model ----
(***************************************************************************)
(* Model of qiskit-backend/server.py: the gate-list circuit builder        *)
(* (build_circuit), the simulation pipeline (run_simulation), the /run and *)
(* /qasm request handlers and the process-wide job history (recent_jobs).  *)
(***************************************************************************)
EXTENDS Integers, Sequences, FiniteSets, Bags, TLC

(***************************************************************************)
(* Bounds of the model.                                                    *)
(***************************************************************************)
\* largest qubit index a descriptor of the builder inputs carries
MaxIdx == 3
\* longest descriptor list given to build_circuit in SpecBuild
MaxGates == 2
\* longest descriptor list of a simulated request in SpecRun
MaxSimGates == 3
\* largest shot count of a request
MaxShots == 2
\* handler threads of the server
MaxThreads == 2
\* successful /run requests after which no new request is accepted
MaxInserts == 102

(***************************************************************************)
(* Python values.  A gate descriptor is a dict: a function from the keys   *)
(* it carries to their values.  dict.get(key) without default returns the  *)
(* empty tuple for None and a one-element tuple for a present value.       *)
(***************************************************************************)
get(d, k) == IF k \in DOMAIN d THEN <<d[k]>> ELSE <<>>

get_default(d, k, default) == IF k \in DOMAIN d THEN d[k] ELSE default

\* str.lower() on the gate-name tokens the inputs use
lower(s) ==
    CASE s = "H"    -> "h"
      [] s = "CNOT" -> "cnot"
      [] s = "Swap" -> "swap"
      [] s = "Foo"  -> "foo"
      [] OTHER      -> s

\* server.py GATE_MAP: frontend gate name -> Qiskit method name
GATE_MAP ==
    [h |-> "h", x |-> "x", y |-> "y", z |-> "z", s |-> "s", t |-> "t",
     sdg |-> "sdg", tdg |-> "tdg", rx |-> "rx", ry |-> "ry", rz |-> "rz",
     cx |-> "cx", cnot |-> "cx", cy |-> "cy", cz |-> "cz", swap |-> "swap",
     ccx |-> "ccx", toffoli |-> "ccx", cswap |-> "cswap", fredkin |-> "cswap",
     measure |-> "measure"]

\* GATE_MAP.get(gate): the empty tuple when the name is not a key
GATE_MAP_get(gate) == get(GATE_MAP, gate)

\* np.pi / 2, in milliradians (angles are integers of milliradians)
HalfPi == 1571

\* angle = params[0] if params else np.pi / 2
angle_of(params) == IF params # <<>> THEN params[1] ELSE HalfPi

(***************************************************************************)
(* Qiskit's QuantumCircuit.  An integer bit specifier indexes the list of  *)
(* bits the way a Python list is indexed: -n..-1 count from the end, and   *)
(* anything outside -n..n-1 raises CircuitError.                           *)
(***************************************************************************)
bit_argument_conversion(i, n) ==
    IF -n <= i /\ i < n THEN <<(i + n) % n>> ELSE <<>>

RECURSIVE resolve_all(_, _)
resolve_all(idxs, n) ==
    IF idxs = <<>> THEN <<>>
    ELSE LET r == bit_argument_conversion(Head(idxs), n)
             rest == resolve_all(Tail(idxs), n)
         IN IF r = <<>> \/ rest = <<-1>> THEN <<-1>> ELSE r \o rest

distinct(s) == \A i, j \in 1..Len(s) : i # j => s[i] # s[j]

\* qc_append without the check for duplicate qubit arguments
qc_append_keeps_duplicates(name, idxs, params, n) ==
    LET qs == resolve_all(idxs, n)
    IN IF qs = <<-1>> THEN <<>>
       ELSE <<[name |-> name, qubits |-> qs, params |-> params]>>

\* QuantumCircuit.append of a standard gate: the operation, or <<>> when
\* Qiskit raises (index out of range, duplicate qubit arguments)
qc_append(name, idxs, params, n) ==
    LET qs == resolve_all(idxs, n)
    IN IF qs = <<-1>> \/ ~distinct(qs) THEN <<>>
       ELSE <<[name |-> name, qubits |-> qs, params |-> params]>>

\* qc.measure(qubit, qubit): the qubit and the classical bit of the same index
qc_measure(q, n) ==
    LET qs == bit_argument_conversion(q, n)
        cs == bit_argument_conversion(q, n)
    IN IF qs = <<>> \/ cs = <<>> THEN <<>>
       ELSE <<[name |-> "measure", qubits |-> qs, params |-> <<>>]>>

(***************************************************************************)
(* build_circuit, lines 83-150.  The body of the try block: what the       *)
(* branch of mapped_gate does.  "call" is the attempted Qiskit call        *)
(* (<<>> when the branch makes none), "op" its result.                     *)
(***************************************************************************)
OneQubit == {"h", "x", "y", "z", "s", "t", "sdg", "tdg"}
Rotation == {"rx", "ry", "rz"}
TwoQubit == {"cx", "cy", "cz", "swap"}

NoCall == [called |-> FALSE, op |-> <<>>]
Call(op) == [called |-> TRUE, op |-> op]

\* try_gate with the default of swap2Qubit taken as qubit + 1
try_gate_wrong_offset(mapped_gate, gate_info, n) ==
    LET qubit == get_default(gate_info, "qubit", 0)
        target_qubit == get(gate_info, "targetQubit")
        params == get_default(gate_info, "params", <<>>)
    IN CASE mapped_gate \in OneQubit ->
              Call(qc_append(mapped_gate, <<qubit>>, <<>>, n))
         [] mapped_gate \in Rotation ->
              Call(qc_append(mapped_gate, <<qubit>>, <<angle_of(params)>>, n))
         [] mapped_gate \in TwoQubit ->
              IF target_qubit # <<>>
              THEN Call(qc_append(mapped_gate, <<qubit, target_qubit[1]>>, <<>>, n))
              ELSE NoCall
         [] mapped_gate = "ccx" ->
              LET control2 == get_default(gate_info, "control2Qubit", qubit + 1)
              IN IF target_qubit # <<>>
                 THEN Call(qc_append("ccx", <<qubit, control2, target_qubit[1]>>, <<>>, n))
                 ELSE NoCall
         [] mapped_gate = "cswap" ->
              LET swap1 == get_default(gate_info, "swap1Qubit", qubit + 2)
                  swap2 == get_default(gate_info, "swap2Qubit", qubit + 1)
              IN Call(qc_append("cswap", <<qubit, swap1, swap2>>, <<>>, n))
         [] mapped_gate = "measure" ->
              Call(qc_measure(qubit, n))

try_gate(mapped_gate, gate_info, n) ==
    LET qubit == get_default(gate_info, "qubit", 0)
        target_qubit == get(gate_info, "targetQubit")
        params == get_default(gate_info, "params", <<>>)
    IN CASE mapped_gate \in OneQubit ->
              Call(qc_append(mapped_gate, <<qubit>>, <<>>, n))
         [] mapped_gate \in Rotation ->
              Call(qc_append(mapped_gate, <<qubit>>, <<angle_of(params)>>, n))
         [] mapped_gate \in TwoQubit ->
              IF target_qubit # <<>>
              THEN Call(qc_append(mapped_gate, <<qubit, target_qubit[1]>>, <<>>, n))
              ELSE NoCall
         [] mapped_gate = "ccx" ->
              LET control2 == get_default(gate_info, "control2Qubit", qubit + 1)
              IN IF target_qubit # <<>>
                 THEN Call(qc_append("ccx", <<qubit, control2, target_qubit[1]>>, <<>>, n))
                 ELSE NoCall
         [] mapped_gate = "cswap" ->
              LET swap1 == get_default(gate_info, "swap1Qubit", qubit + 1)
                  swap2 == get_default(gate_info, "swap2Qubit", qubit + 2)
              IN Call(qc_append("cswap", <<qubit, swap1, swap2>>, <<>>, n))
         [] mapped_gate = "measure" ->
              Call(qc_measure(qubit, n))

\* build_step that skips an unknown gate without the logger.warning
build_step_silent_skip(acc, gate_info, i, n) ==
    LET gate == lower(get_default(gate_info, "gate", ""))
        mapped_gate == GATE_MAP_get(gate)
    IN IF mapped_gate = <<>>
       THEN acc
       ELSE LET r == try_gate(mapped_gate[1], gate_info, n)
            IN IF ~r.called THEN acc
               ELSE IF r.op = <<>>
               THEN [acc EXCEPT !.log = Append(@, [level |-> "error", gate |-> gate, at |-> i])]
               ELSE [acc EXCEPT !.data = Append(@, [op |-> r.op[1], at |-> i])]

\* one iteration of the for loop, lines 87-148, on the descriptor at
\* position i; acc is the circuit data and the logger output so far.  Each
\* operation and each log record remembers the position it came from.
build_step(acc, gate_info, i, n) ==
    LET gate == lower(get_default(gate_info, "gate", ""))
        mapped_gate == GATE_MAP_get(gate)
    IN IF mapped_gate = <<>>
       THEN [acc EXCEPT !.log = Append(@, [level |-> "warning", gate |-> gate, at |-> i])]
       ELSE LET r == try_gate(mapped_gate[1], gate_info, n)
            IN IF ~r.called THEN acc
               ELSE IF r.op = <<>>
               THEN [acc EXCEPT !.log = Append(@, [level |-> "error", gate |-> gate, at |-> i])]
               ELSE [acc EXCEPT !.data = Append(@, [op |-> r.op[1], at |-> i])]

RECURSIVE build_loop(_, _, _, _)
build_loop(acc, gates, i, n) ==
    IF i > Len(gates) THEN acc
    ELSE build_loop(build_step(acc, gates[i], i, n), gates, i + 1, n)

\* QuantumCircuit(num_qubits, num_qubits), line 85: a register of negative
\* size raises CircuitError; size 0 gives a circuit without registers
QuantumCircuit_raises(num_qubits) == num_qubits < 0

build_circuit(num_qubits, gates) ==
    IF QuantumCircuit_raises(num_qubits)
    THEN [raised |-> TRUE, num_qubits |-> 0, num_clbits |-> 0,
          data |-> <<>>, log |-> <<>>]
    ELSE LET acc == build_loop([data |-> <<>>, log |-> <<>>], gates, 1, num_qubits)
         IN [raised |-> FALSE, num_qubits |-> num_qubits, num_clbits |-> num_qubits,
             data |-> acc.data, log |-> acc.log]

\* the operations of a circuit, without the positions they came from
RECURSIVE ops_of(_)
ops_of(data) ==
    IF data = <<>> THEN <<>> ELSE <<Head(data).op>> \o ops_of(Tail(data))

(***************************************************************************)
(* The statevector of a circuit of h, x, z, cx, cz, swap and measure.      *)
(* Such a state has amplitudes of one magnitude on its support, so it is   *)
(* kept as the function from the basis indices of non-zero amplitude to    *)
(* the sign of the amplitude; the magnitude is 1/sqrt(|support|).  Qubit 0 *)
(* is the least significant bit of the index.                              *)
(***************************************************************************)
Bit(i, q) == (i \div (2 ^ q)) % 2

Flip(i, q) == IF Bit(i, q) = 0 THEN i + 2 ^ q ELSE i - 2 ^ q

amp(sv, i) == IF i \in DOMAIN sv THEN sv[i] ELSE 0

sign(v) == IF v > 0 THEN 1 ELSE -1

\* a permutation gate: basis index i moves to F[i]
permute(sv, F) ==
    LET img == {F[i] : i \in DOMAIN sv}
    IN [j \in img |-> sv[CHOOSE i \in DOMAIN sv : F[i] = j]]

apply_h(sv, q) ==
    LET cand == DOMAIN sv \cup {Flip(i, q) : i \in DOMAIN sv}
        raw(j) == IF Bit(j, q) = 0
                  THEN amp(sv, j) + amp(sv, Flip(j, q))
                  ELSE amp(sv, Flip(j, q)) - amp(sv, j)
        sup == {j \in cand : raw(j) # 0}
    IN [j \in sup |-> sign(raw(j))]

apply_x(sv, q) == permute(sv, [i \in DOMAIN sv |-> Flip(i, q)])

apply_z(sv, q) == [i \in DOMAIN sv |-> IF Bit(i, q) = 1 THEN -sv[i] ELSE sv[i]]

apply_cx(sv, c, t) ==
    permute(sv, [i \in DOMAIN sv |-> IF Bit(i, c) = 1 THEN Flip(i, t) ELSE i])

apply_cz(sv, c, t) ==
    [i \in DOMAIN sv |-> IF Bit(i, c) = 1 /\ Bit(i, t) = 1 THEN -sv[i] ELSE sv[i]]

apply_swap(sv, a, b) ==
    permute(sv, [i \in DOMAIN sv |->
                    IF Bit(i, a) # Bit(i, b) THEN Flip(Flip(i, a), b) ELSE i])

apply_gate(sv, op) ==
    CASE op.name = "h"    -> apply_h(sv, op.qubits[1])
      [] op.name = "x"    -> apply_x(sv, op.qubits[1])
      [] op.name = "z"    -> apply_z(sv, op.qubits[1])
      [] op.name = "cx"   -> apply_cx(sv, op.qubits[1], op.qubits[2])
      [] op.name = "cz"   -> apply_cz(sv, op.qubits[1], op.qubits[2])
      [] op.name = "swap" -> apply_swap(sv, op.qubits[1], op.qubits[2])

\* a measurement of qubit q with outcome b: the state collapses onto the
\* basis states whose bit q is b
collapse(sv, q, b) == [i \in {j \in DOMAIN sv : Bit(j, q) = b} |-> sv[i]]

\* a configuration of one shot: the statevector and the classical
\* register c (the bits that measured 1)
step_op(cfg, op) ==
    IF op.name = "measure"
    THEN LET q == op.qubits[1]
         IN {[sv |-> collapse(cfg.sv, q, b),
              c |-> IF b = 1 THEN cfg.c \cup {q} ELSE cfg.c \ {q}] :
                b \in {Bit(i, q) : i \in DOMAIN cfg.sv}}
    ELSE {[sv |-> apply_gate(cfg.sv, op), c |-> cfg.c]}

RECURSIVE run_ops(_, _)
run_ops(cfgs, ops) ==
    IF ops = <<>> THEN cfgs
    ELSE run_ops(UNION {step_op(cfg, Head(ops)) : cfg \in cfgs}, Tail(ops))

\* the all-zero state: amplitude 1 at index 0
ZeroState == [sv |-> [i \in {0} |-> 1], c |-> {}]

\* remove_final_measurements that removes nothing
keep_all_measurements(ops) == ops

\* QuantumCircuit.remove_final_measurements(): a measure goes when every
\* later operation on its qubit is a measure too
is_final_measure(ops, k) ==
    /\ ops[k].name = "measure"
    /\ \A j \in (k + 1)..Len(ops) :
          ops[k].qubits[1] \in {ops[j].qubits[i] : i \in 1..Len(ops[j].qubits)}
             => ops[j].name = "measure"

RECURSIVE keep_from(_, _)
keep_from(ops, k) ==
    IF k > Len(ops) THEN <<>>
    ELSE (IF is_final_measure(ops, k) THEN <<>> ELSE <<ops[k]>>) \o keep_from(ops, k + 1)

remove_final_measurements(ops) == keep_from(ops, 1)

\* format(i, '0{n}b'): the bits of i, most significant first, at least n wide
digit(b) == IF b = 1 THEN "1" ELSE "0"

format_bits(i, n) == IF n = 0 THEN <<"0">> ELSE [k \in 1..n |-> digit(Bit(i, n - k))]

\* run_simulation lines 157-166: the statevectors the one-shot run of the
\* circuit without its final measurements can return
statevectors(ops) ==
    {cfg.sv : cfg \in run_ops({ZeroState}, remove_final_measurements(ops))}

\* run_simulation lines 168-174: a probability is the pair <<1, |support|>>;
\* every amplitude of the support is above the 1e-10 threshold
probabilities_of(sv, n) ==
    LET keys == {format_bits(i, n) : i \in DOMAIN sv}
    IN [k \in keys |-> <<1, Cardinality(DOMAIN sv)>>]

\* the register c as a bitstring, most significant bit first
creg_bits(c, n) == [k \in 1..n |-> IF (n - k) \in c THEN "1" ELSE "0"]

\* run_simulation lines 177-182: measure_all() adds a register "meas" of n
\* bits beside the register c of the circuit, and a key of get_counts() is
\* the two registers, newest first, separated by a space
count_keys(ops, n, has_creg) ==
    UNION {{format_bits(i, n) \o
               (IF has_creg THEN <<" ">> \o creg_bits(cfg.c, n) ELSE <<>>) :
               i \in DOMAIN cfg.sv} :
           cfg \in run_ops({ZeroState}, ops)}

RECURSIVE bag_of(_)
bag_of(seq) ==
    IF seq = <<>> THEN EmptyBag
    ELSE bag_of(Tail(seq)) (+) SetToBag({Head(seq)})

(***************************************************************************)
(* The OpenQASM 2 text of a circuit, as the list of its statements: the    *)
(* keyword, the parameters and the bit operands of each.                   *)
(***************************************************************************)
stmt(kw, params, args) == [kw |-> kw, params |-> params, args |-> args]

\* qasm_op that writes the qubits of a gate in reverse order
qasm_op_reversed(op) ==
    IF op.name = "measure"
    THEN stmt("measure", <<>>, <<op.qubits[1], op.qubits[1]>>)
    ELSE stmt(op.name, op.params,
              [k \in 1..Len(op.qubits) |-> op.qubits[Len(op.qubits) + 1 - k]])

\* the statement of one operation: "measure q[i] -> c[i];" names the qubit
\* and the classical bit, a gate its parameters and its qubits
qasm_op(op) ==
    IF op.name = "measure"
    THEN stmt("measure", <<>>, <<op.qubits[1], op.qubits[1]>>)
    ELSE stmt(op.name, op.params, op.qubits)

RECURSIVE qasm_body(_)
qasm_body(ops) ==
    IF ops = <<>> THEN <<>> ELSE <<qasm_op(Head(ops))>> \o qasm_body(Tail(ops))

\* QuantumCircuit.qasm(), line 251: the header, the registers q and c (a
\* circuit of no qubits has no register), one statement per operation
qasm(circuit) ==
    <<stmt("OPENQASM", <<>>, <<2>>), stmt("include", <<>>, <<>>)>>
    \o (IF circuit.num_qubits > 0
        THEN <<stmt("qreg", <<>>, <<circuit.num_qubits>>),
               stmt("creg", <<>>, <<circuit.num_qubits>>)>>
        ELSE <<>>)
    \o qasm_body(ops_of(circuit.data))

\* the gates of qelib1.inc the builder can emit, with the number of
\* parameters and of qubits of each
QelibArity ==
    [h |-> <<0, 1>>, x |-> <<0, 1>>, y |-> <<0, 1>>, z |-> <<0, 1>>,
     s |-> <<0, 1>>, t |-> <<0, 1>>, sdg |-> <<0, 1>>, tdg |-> <<0, 1>>,
     rx |-> <<1, 1>>, ry |-> <<1, 1>>, rz |-> <<1, 1>>,
     cx |-> <<0, 2>>, cy |-> <<0, 2>>, cz |-> <<0, 2>>, swap |-> <<0, 2>>,
     ccx |-> <<0, 3>>, cswap |-> <<0, 3>>]

in_register(args, size) == \A i \in 1..Len(args) : 0 <= args[i] /\ args[i] < size

\* one statement read by the parser; acc is the circuit so far, with the
\* sizes of the registers declared and "raised" once a statement is refused
parse_stmt(acc, st) ==
    LET fail == [acc EXCEPT !.raised = TRUE]
    IN CASE acc.raised -> acc
         [] st.kw = "qreg" ->
              IF st.args[1] > 0 THEN [acc EXCEPT !.num_qubits = @ + st.args[1]] ELSE fail
         [] st.kw = "creg" ->
              IF st.args[1] > 0 THEN [acc EXCEPT !.num_clbits = @ + st.args[1]] ELSE fail
         [] st.kw = "measure" ->
              IF Len(st.args) = 2 /\ st.args[1] \in 0..(acc.num_qubits - 1)
                                 /\ st.args[2] \in 0..(acc.num_clbits - 1)
              THEN [acc EXCEPT !.data = Append(@,
                       [op |-> [name |-> "measure", qubits |-> <<st.args[1]>>, params |-> <<>>],
                        at |-> Len(acc.data) + 1])]
              ELSE fail
         [] st.kw \in DOMAIN QelibArity ->
              IF /\ Len(st.params) = QelibArity[st.kw][1]
                 /\ Len(st.args) = QelibArity[st.kw][2]
                 /\ in_register(st.args, acc.num_qubits)
                 /\ distinct(st.args)
              THEN [acc EXCEPT !.data = Append(@,
                       [op |-> [name |-> st.kw, qubits |-> st.args, params |-> st.params],
                        at |-> Len(acc.data) + 1])]
              ELSE fail
         [] OTHER -> fail

RECURSIVE parse_body(_, _)
parse_body(acc, text) ==
    IF text = <<>> THEN acc ELSE parse_body(parse_stmt(acc, Head(text)), Tail(text))

\* QuantumCircuit.from_qasm_str(qasm_code), line 288: the text must open
\* with the OPENQASM 2.0 header and the include of qelib1.inc
from_qasm_str(text) ==
    LET empty == [raised |-> FALSE, num_qubits |-> 0, num_clbits |-> 0, data |-> <<>>]
    IN IF Len(text) < 2 \/ text[1].kw # "OPENQASM" \/ text[2].kw # "include"
       THEN [empty EXCEPT !.raised = TRUE]
       ELSE parse_body(empty, SubSeq(text, 3, Len(text)))

(***************************************************************************)
(* The state.  args, built, text and decoded are one application of        *)
(* build_circuit, qasm() and from_qasm_str to an input.  The others are    *)
(* the server: per handler thread its position (pc), its request and the   *)
(* locals of run_circuit / parse_qasm / run_simulation, and process-wide   *)
(* the job history and the logger output.  trace lists the phases a        *)
(* handler has entered; job_seq counts the records ever inserted, and a    *)
(* record carries the number of its insertion.                             *)
(***************************************************************************)
VARIABLES stage, args, built, text, decoded,
          pc, req, qc, results, response, trace,
          recent_jobs, log, job_seq

vars == <<stage, args, built, text, decoded,
          pc, req, qc, results, response, trace, recent_jobs, log, job_seq>>

fnvars == <<stage, args, built, text, decoded>>
srvvars == <<pc, req, qc, results, response, trace, recent_jobs, log, job_seq>>

\* server.py line 47
MAX_JOBS == 100

\* status(), line 210: the qubit count the service advertises as its ceiling
MAX_QUBITS == 25

Threads == 1..MaxThreads

NoRequest == [path |-> "none"]

ServerIdle ==
    /\ pc = [t \in Threads |-> "idle"]
    /\ req = [t \in Threads |-> NoRequest]
    /\ qc = [t \in Threads |-> <<>>]
    /\ results = [t \in Threads |-> <<>>]
    /\ response = [t \in Threads |-> <<>>]
    /\ trace = [t \in Threads |-> <<>>]
    /\ recent_jobs = <<>>
    /\ log = <<>>
    /\ job_seq = 0

FnIdle ==
    /\ stage = "none"
    /\ args = <<>>
    /\ built = <<>>
    /\ text = <<>>
    /\ decoded = <<>>

\* the lists of at most n elements of S
ListsOf(S, n) == UNION {[1..k -> S] : k \in 0..n}

(***************************************************************************)
(* SpecBuild: build_circuit, qasm() and from_qasm_str applied to the       *)
(* descriptor lists of BuildDescriptors.                                   *)
(***************************************************************************)
Idx == -1..MaxIdx

BuildDescriptors ==
    {[gate |-> "H", qubit |-> q] : q \in {-1, 0, MaxIdx}}
    \cup {[gate |-> "measure", qubit |-> q] : q \in {0, MaxIdx}}
    \cup {[gate |-> "Foo", qubit |-> 0], [gate |-> ""], [gate |-> "x"], [qubit |-> 0]}
    \cup {[gate |-> g, qubit |-> 0] :
             g \in {"y", "z", "s", "t", "sdg", "tdg", "rx", "ry", "rz"}}
    \cup {[gate |-> "rx", qubit |-> 0, params |-> <<785>>]}
    \cup {[gate |-> "CNOT", qubit |-> q, targetQubit |-> t] :
             q \in {0, MaxIdx - 1}, t \in Idx}
    \cup {[gate |-> g, qubit |-> 0] : g \in {"CNOT", "cy", "Swap", "ccx"}}
    \cup {[gate |-> g, qubit |-> 0, targetQubit |-> 1] : g \in {"cx", "cy", "cz", "Swap"}}
    \cup {[gate |-> "toffoli", qubit |-> q, targetQubit |-> 2] : q \in 0..1}
    \cup {[gate |-> "ccx", qubit |-> 0, control2Qubit |-> c, targetQubit |-> 1] :
             c \in {0, 2}}
    \cup {[gate |-> "ccx", qubit |-> 0, control2Qubit |-> 1]}
    \cup {[gate |-> "fredkin", qubit |-> q] : q \in {0, MaxIdx - 2}}
    \cup {[gate |-> "cswap", qubit |-> 0, swap1Qubit |-> a] : a \in {1, 2}}
    \cup {[gate |-> "cswap", qubit |-> 1, swap1Qubit |-> 0, swap2Qubit |-> 2]}

\* no circuit, no qubit, and a register in which MaxIdx is the first index
\* out of range
BuildQubitCounts == {-1, 0, MaxIdx}

InitBuild ==
    /\ ServerIdle
    /\ stage = "input"
    /\ args \in [num_qubits : BuildQubitCounts,
                  gates : ListsOf(BuildDescriptors, MaxGates)]
    /\ built = <<>>
    /\ text = <<>>
    /\ decoded = <<>>

\* qc = build_circuit(num_qubits, gates)
ApplyBuild ==
    /\ stage = "input"
    /\ built' = build_circuit(args.num_qubits, args.gates)
    /\ stage' = IF built'.raised THEN "raised" ELSE "built"
    /\ UNCHANGED <<args, text, decoded, srvvars>>

\* qasm = qc.qasm()
ApplyEncode ==
    /\ stage = "built"
    /\ text' = qasm(built)
    /\ stage' = "encoded"
    /\ UNCHANGED <<args, built, decoded, srvvars>>

\* qc = QuantumCircuit.from_qasm_str(qasm)
ApplyDecode ==
    /\ stage = "encoded"
    /\ decoded' = from_qasm_str(text)
    /\ stage' = "decoded"
    /\ UNCHANGED <<args, built, text, srvvars>>

NextBuild == ApplyBuild \/ ApplyEncode \/ ApplyDecode

SpecBuild == InitBuild /\ [][NextBuild]_vars

(***************************************************************************)
(* Claims about build_circuit and the text codec, checked under SpecBuild. *)
(***************************************************************************)
\* the gate names the builder knows, aliases included
KnownNames ==
    {"h", "x", "y", "z", "s", "t", "sdg", "tdg", "rx", "ry", "rz", "cx", "cnot",
     "cy", "cz", "swap", "ccx", "toffoli", "cswap", "fredkin", "measure"}

name_of(d) == lower(IF "gate" \in DOMAIN d THEN d.gate ELSE "")

unknown_name(d) == name_of(d) \notin KnownNames

kind_of(d) ==
    CASE name_of(d) = "cnot"    -> "cx"
      [] name_of(d) = "toffoli" -> "ccx"
      [] name_of(d) = "fredkin" -> "cswap"
      [] OTHER                  -> name_of(d)

has(d, k) == k \in DOMAIN d

primary(d) == IF has(d, "qubit") THEN d.qubit ELSE 0

Built == stage \in {"built", "encoded", "decoded"}

ops_at(i) == {k \in DOMAIN built.data : built.data[k].at = i}

logs_at(i, level) ==
    {k \in DOMAIN built.log : built.log[k].at = i /\ built.log[k].level = level}

in_order(data) == \A j, k \in DOMAIN data : j < k => data[j].at < data[k].at

\* C1: an unknown gate name is skipped without failing the build: for a
\* positive qubit count the circuit holds the operations of the other
\* descriptors (what the builder gives for the list without the
\* unknown-name descriptors), in input order, and the log holds exactly one
\* warning for each unknown-name descriptor and none for any other.
C1_UnknownGateSkipped ==
    (stage # "input" /\ args.num_qubits > 0) =>
        /\ Built
        /\ ops_of(built.data) =
             ops_of(build_circuit(args.num_qubits,
                        SelectSeq(args.gates, LAMBDA d : ~unknown_name(d))).data)
        /\ in_order(built.data)
        /\ \A i \in DOMAIN args.gates :
             IF unknown_name(args.gates[i])
             THEN Cardinality(logs_at(i, "warning")) = 1 /\ ops_at(i) = {}
                  /\ logs_at(i, "error") = {}
             ELSE logs_at(i, "warning") = {}
        /\ \A i \in DOMAIN args.gates :
             (kind_of(args.gates[i]) \in OneQubit
                /\ primary(args.gates[i]) \in 0..(args.num_qubits - 1))
             => \E k \in ops_at(i) :
                   built.data[k].op = [name |-> kind_of(args.gates[i]),
                                       qubits |-> <<primary(args.gates[i])>>,
                                       params |-> <<>>]

\* C1 witness: a list with an unknown name before a descriptor whose
\* operation is in the circuit
C1_Witness ==
    /\ stage = "built"
    /\ args.num_qubits > 0
    /\ \E i, j \in DOMAIN args.gates :
          i < j /\ unknown_name(args.gates[i]) /\ ops_at(j) # {}

\* the qubits a multi-qubit descriptor names once every missing qubit field
\* is filled with primary+1 (second qubit) and primary+2 (third qubit)
filled(d) ==
    LET q == primary(d)
    IN CASE kind_of(d) \in TwoQubit ->
              <<q, IF has(d, "targetQubit") THEN d.targetQubit ELSE q + 1>>
         [] kind_of(d) = "ccx" ->
              <<q, IF has(d, "control2Qubit") THEN d.control2Qubit ELSE q + 1,
                   IF has(d, "targetQubit") THEN d.targetQubit ELSE q + 2>>
         [] kind_of(d) = "cswap" ->
              <<q, IF has(d, "swap1Qubit") THEN d.swap1Qubit ELSE q + 1,
                   IF has(d, "swap2Qubit") THEN d.swap2Qubit ELSE q + 2>>

MultiQubit == TwoQubit \cup {"ccx", "cswap"}

omits_qubit(d) ==
    CASE kind_of(d) \in TwoQubit -> ~has(d, "targetQubit")
      [] kind_of(d) = "ccx" -> ~has(d, "targetQubit") \/ ~has(d, "control2Qubit")
      [] kind_of(d) = "cswap" -> ~has(d, "swap1Qubit") \/ ~has(d, "swap2Qubit")
      [] OTHER -> FALSE

in_range(qs, n) == \A k \in DOMAIN qs : qs[k] \in 0..(n - 1)

has_op(i, d) ==
    \E k \in ops_at(i) :
        built.data[k].op.name = kind_of(d) /\ built.data[k].op.qubits = filled(d)

C3_EveryDescriptorAccounted ==
    Built =>
        \A i \in DOMAIN args.gates :
            ops_at(i) # {} \/ logs_at(i, "warning") # {} \/ logs_at(i, "error") # {}

Arity(name) ==
    CASE name \in TwoQubit -> 2
      [] name \in {"ccx", "cswap"} -> 3
      [] OTHER -> 1

\* the qubit arguments of the Qiskit call a descriptor leads to (none for
\* an unknown name or a missing targetQubit)
operands(d) ==
    CASE unknown_name(d) -> <<>>
      [] kind_of(d) \in TwoQubit \cup {"ccx"} /\ ~has(d, "targetQubit") -> <<>>
      [] kind_of(d) \in MultiQubit -> filled(d)
      [] OTHER -> <<primary(d)>>

\* the index a bit specifier stands for: i, or n + i for a negative i
wrapped(i, n) == IF i < 0 THEN n + i ELSE i

bad_index(d, n) ==
    LET qs == operands(d)
        w == [k \in DOMAIN qs |-> wrapped(qs[k], n)]
    IN qs # <<>> /\ (~in_range(w, n) \/ ~distinct(w))

C5_NonPositiveRejected ==
    (stage # "input" /\ args.num_qubits <= 0) => stage = "raised"

gates_of(data) ==
    [k \in DOMAIN data |-> <<data[k].op.name, data[k].op.qubits>>]

SimDescriptors ==
    {[gate |-> g, qubit |-> q] : g \in {"h", "measure"}, q \in 0..1}
    \cup {[gate |-> "x", qubit |-> 0], [gate |-> "cx", qubit |-> 0, targetQubit |-> 1]}

SimQubitCounts == {-1, 1, 2, MAX_QUBITS + 1}

\* a text no parser accepts
Malformed == <<stmt("qreg", <<>>, <<1>>)>>

RunRequests ==
    [path : {"run"}, numQubits : SimQubitCounts,
     gates : ListsOf(SimDescriptors, MaxSimGates), shots : 0..MaxShots]
    \cup
    [path : {"qasm"},
     qasm : {qasm(build_circuit(n, g)) :
               n \in SimQubitCounts \ {-1}, g \in ListsOf(SimDescriptors, MaxSimGates)}
            \cup {Malformed},
     shots : 0..MaxShots]

error_response(status) == [success |-> FALSE, status |-> status]

circuit_of(c) == [num_qubits |-> c.num_qubits, num_clbits |-> c.num_clbits, data |-> c.data]

\* a request arrives at an idle thread: lines 224-229 or 284-286
Receive(t, requests) ==
    /\ pc[t] = "idle"
    /\ response[t] = <<>>
    /\ job_seq < MaxInserts
    /\ \E r \in requests :
          /\ req' = [req EXCEPT ![t] = r]
          /\ pc' = [pc EXCEPT ![t] = IF r.path = "run" THEN "build" ELSE "parse"]
    /\ UNCHANGED <<qc, results, response, trace, recent_jobs, log, job_seq, fnvars>>

\* line 232: qc = build_circuit(num_qubits, gates)
Build(t) ==
    /\ pc[t] = "build"
    /\ LET out == build_circuit(req[t].numQubits, req[t].gates)
       IN /\ ~out.raised
          /\ qc' = [qc EXCEPT ![t] = <<circuit_of(out)>>]
          /\ log' = log \o out.log
    /\ trace' = [trace EXCEPT ![t] = Append(@, "build")]
    /\ pc' = [pc EXCEPT ![t] = "exact"]
    /\ UNCHANGED <<req, results, response, recent_jobs, job_seq, fnvars>>

\* line 232 raises: lines 262-267
BuildRaises(t) ==
    /\ pc[t] = "build"
    /\ build_circuit(req[t].numQubits, req[t].gates).raised
    /\ trace' = [trace EXCEPT ![t] = Append(@, "build")]
    /\ response' = [response EXCEPT ![t] = <<error_response(500)>>]
    /\ pc' = [pc EXCEPT ![t] = "done"]
    /\ UNCHANGED <<req, qc, results, recent_jobs, log, job_seq, fnvars>>

\* line 288: qc = QuantumCircuit.from_qasm_str(qasm_code)
Parse(t) ==
    /\ pc[t] = "parse"
    /\ LET out == from_qasm_str(req[t].qasm)
       IN /\ ~out.raised
          /\ qc' = [qc EXCEPT ![t] = <<circuit_of(out)>>]
    /\ trace' = [trace EXCEPT ![t] = Append(@, "parse")]
    /\ pc' = [pc EXCEPT ![t] = "exact"]
    /\ UNCHANGED <<req, results, response, recent_jobs, log, job_seq, fnvars>>

\* line 288 raises: lines 298-303
ParseRaises(t) ==
    /\ pc[t] = "parse"
    /\ from_qasm_str(req[t].qasm).raised
    /\ trace' = [trace EXCEPT ![t] = Append(@, "parse")]
    /\ response' = [response EXCEPT ![t] = <<error_response(400)>>]
    /\ pc' = [pc EXCEPT ![t] = "done"]
    /\ UNCHANGED <<req, qc, results, recent_jobs, log, job_seq, fnvars>>

error_status(t) == IF req[t].path = "run" THEN 500 ELSE 400

\* the simulator may run out of memory above the advertised ceiling
may_exhaust_memory(t) == qc[t][1].num_qubits > MAX_QUBITS

\* run_simulation lines 155-174: the statevector run and the probabilities
ExactRun(t) ==
    /\ pc[t] = "exact"
    /\ \E sv \in statevectors(ops_of(qc[t][1].data)) :
          results' = [results EXCEPT ![t] =
                        <<[statevector |-> sv,
                           probabilities |-> probabilities_of(sv, qc[t][1].num_qubits)]>>]
    /\ trace' = [trace EXCEPT ![t] = Append(@, "statevector")]
    /\ pc' = [pc EXCEPT ![t] = "sample"]
    /\ UNCHANGED <<req, qc, response, recent_jobs, log, job_seq, fnvars>>

\* the statevector run raises: lines 262-267 or 298-303
ExactRunRaises(t) ==
    /\ pc[t] = "exact"
    /\ may_exhaust_memory(t)
    /\ trace' = [trace EXCEPT ![t] = Append(@, "statevector")]
    /\ response' = [response EXCEPT ![t] = <<error_response(error_status(t))>>]
    /\ pc' = [pc EXCEPT ![t] = "done"]
    /\ UNCHANGED <<req, qc, results, recent_jobs, log, job_seq, fnvars>>

\* run_simulation lines 176-199: measure_all(), the run of shots shots, the
\* counts.  A run of no shots that does not raise has no counts.
Sample(t) ==
    /\ pc[t] = "sample"
    /\ LET c == qc[t][1]
           keys == count_keys(ops_of(c.data), c.num_qubits, c.num_clbits > 0)
           shots == req[t].shots
       IN \E outcomes \in [1..shots -> keys] :
             results' = [results EXCEPT ![t] =
                           <<[statevector |-> @[1].statevector,
                              probabilities |-> @[1].probabilities,
                              counts |-> bag_of(outcomes),
                              measurements |->
                                  [k \in DOMAIN bag_of(outcomes) |->
                                      <<bag_of(outcomes)[k], shots>>],
                              shots |-> shots]>>]
    /\ trace' = [trace EXCEPT ![t] = Append(@, "sample")]
    /\ pc' = [pc EXCEPT ![t] = IF req[t].path = "run" THEN "store" ELSE "reply"]
    /\ UNCHANGED <<req, qc, response, recent_jobs, log, job_seq, fnvars>>

\* the run of the shots raises: lines 262-267 or 298-303
SampleRaises(t) ==
    /\ pc[t] = "sample"
    /\ req[t].shots <= 0 \/ may_exhaust_memory(t)
    /\ trace' = [trace EXCEPT ![t] = Append(@, "sample")]
    /\ response' = [response EXCEPT ![t] = <<error_response(error_status(t))>>]
    /\ pc' = [pc EXCEPT ![t] = "done"]
    /\ UNCHANGED <<req, qc, results, recent_jobs, log, job_seq, fnvars>>

\* lines 238-246: the job record, recent_jobs.insert(0, job_record)
Store(t) ==
    /\ pc[t] = "store"
    /\ recent_jobs' = <<[seq |-> job_seq + 1,
                         num_qubits |-> req[t].numQubits,
                         num_gates |-> Len(req[t].gates),
                         shots |-> req[t].shots,
                         success |-> TRUE]>> \o recent_jobs
    /\ job_seq' = job_seq + 1
    /\ trace' = [trace EXCEPT ![t] = Append(@, "insert")]
    /\ pc' = [pc EXCEPT ![t] = "check"]
    /\ UNCHANGED <<req, qc, results, response, log, fnvars>>

\* line 247: if len(recent_jobs) > MAX_JOBS
CheckLen(t) ==
    /\ pc[t] = "check"
    /\ pc' = [pc EXCEPT ![t] = IF Len(recent_jobs) > MAX_JOBS THEN "pop" ELSE "qasm"]
    /\ UNCHANGED <<req, qc, results, response, trace, recent_jobs, log, job_seq, fnvars>>

\* Pop that removes the first record instead of the last
Pop_front(t) ==
    /\ pc[t] = "pop"
    /\ recent_jobs' = Tail(recent_jobs)
    /\ trace' = [trace EXCEPT ![t] = Append(@, "pop")]
    /\ pc' = [pc EXCEPT ![t] = "qasm"]
    /\ UNCHANGED <<req, qc, results, response, log, job_seq, fnvars>>

\* line 248: recent_jobs.pop()
Pop(t) ==
    /\ pc[t] = "pop"
    /\ recent_jobs' = SubSeq(recent_jobs, 1, Len(recent_jobs) - 1)
    /\ trace' = [trace EXCEPT ![t] = Append(@, "pop")]
    /\ pc' = [pc EXCEPT ![t] = "qasm"]
    /\ UNCHANGED <<req, qc, results, response, log, job_seq, fnvars>>

\* lines 250-260: the text of the circuit and the response of /run
Respond(t) ==
    /\ pc[t] = "qasm"
    /\ response' = [response EXCEPT ![t] =
                       <<[success |-> TRUE, status |-> 200,
                          results |-> results[t][1],
                          qasm |-> qasm(qc[t][1]),
                          gate_count |-> Len(qc[t][1].data)]>>]
    /\ pc' = [pc EXCEPT ![t] = "done"]
    /\ UNCHANGED <<req, qc, results, trace, recent_jobs, log, job_seq, fnvars>>

\* lines 291-296: the response of /qasm
Reply(t) ==
    /\ pc[t] = "reply"
    /\ response' = [response EXCEPT ![t] =
                       <<[success |-> TRUE, status |-> 200,
                          results |-> results[t][1],
                          num_qubits |-> qc[t][1].num_qubits]>>]
    /\ pc' = [pc EXCEPT ![t] = "done"]
    /\ UNCHANGED <<req, qc, results, trace, recent_jobs, log, job_seq, fnvars>>

\* the response is sent and the thread is free for the next request
Finish(t) ==
    /\ pc[t] = "done"
    /\ pc' = [pc EXCEPT ![t] = "idle"]
    /\ req' = [req EXCEPT ![t] = NoRequest]
    /\ qc' = [qc EXCEPT ![t] = <<>>]
    /\ results' = [results EXCEPT ![t] = <<>>]
    /\ response' = [response EXCEPT ![t] = <<>>]
    /\ trace' = [trace EXCEPT ![t] = <<>>]
    /\ UNCHANGED <<recent_jobs, log, job_seq, fnvars>>

InitServer == ServerIdle /\ FnIdle

(***************************************************************************)
(* SpecRun: one request of RunRequests, handled by one thread.             *)
(***************************************************************************)
NextRun ==
    \/ Receive(1, RunRequests)
    \/ Build(1)
    \/ BuildRaises(1)
    \/ Parse(1)
    \/ ParseRaises(1)
    \/ ExactRun(1)
    \/ ExactRunRaises(1)
    \/ Sample(1)
    \/ SampleRaises(1)
    \/ Store(1)
    \/ CheckLen(1)
    \/ Respond(1)
    \/ Reply(1)

SpecRun == InitServer /\ [][NextRun]_vars

(***************************************************************************)
(* SpecJobs: the handler threads serve requests of JobRequests one after   *)
(* the other, their steps interleaved.                                     *)
(***************************************************************************)
JobRequests ==
    {[path |-> "run", numQubits |-> 1, gates |-> <<>>, shots |-> 1],
     [path |-> "run", numQubits |-> -1, gates |-> <<>>, shots |-> 1],
     [path |-> "qasm", qasm |-> qasm(build_circuit(1, <<>>)), shots |-> 1],
     [path |-> "qasm", qasm |-> Malformed, shots |-> 1]}

NextJobs ==
    \E t \in Threads :
        \/ Receive(t, JobRequests)
        \/ Build(t)
        \/ BuildRaises(t)
        \/ Parse(t)
        \/ ParseRaises(t)
        \/ ExactRun(t)
        \/ Sample(t)
        \/ Store(t)
        \/ CheckLen(t)
        \/ Pop(t)
        \/ Respond(t)
        \/ Reply(t)
        \/ Finish(t)

SpecJobs == InitServer /\ [][NextJobs]_vars

(***************************************************************************)
(* Claims about the handlers, checked under SpecRun and SpecJobs.          *)
(***************************************************************************)
entered(t, phase) == \E k \in DOMAIN trace[t] : trace[t][k] = phase

\* the qubit count of the request of thread t, once known
qubit_count(t) ==
    IF req[t].path = "run" THEN req[t].numQubits
    ELSE IF qc[t] # <<>> THEN qc[t][1].num_qubits ELSE 0

\* C6: a request with shots <= 0 or a qubit count above the ceiling is
\* rejected before any computation: neither the statevector run nor the
\* sampling run is entered, and the response is an error.
C6_RejectedBeforeComputation ==
    \A t \in Threads :
        (req[t].path # "none" /\ (req[t].shots <= 0 \/ qubit_count(t) > MAX_QUBITS))
        => /\ ~entered(t, "statevector")
           /\ ~entered(t, "sample")
           /\ pc[t] = "done" => ~response[t][1].success

is_measure(op) == op.name = "measure"

without_measures(ops) == SelectSeq(ops, LAMBDA op : ~is_measure(op))

\* the states of a circuit without measurements: one, no collapse
unitary_states(ops) == {cfg.sv : cfg \in run_ops({ZeroState}, without_measures(ops))}

touches(op, q) == \E k \in DOMAIN op.qubits : op.qubits[k] = q

\* every measurement is followed, on its qubit, by measurements only
only_final_measures(ops) ==
    \A j, k \in DOMAIN ops :
        (j < k /\ is_measure(ops[j]) /\ touches(ops[k], ops[j].qubits[1]))
        => is_measure(ops[k])

is_bitstring(key, n) ==
    Len(key) = n /\ \A k \in DOMAIN key : key[k] \in {"0", "1"}

\* C8: for shots = N > 0 the keys of the counts are bitstrings of length
\* qubit_count, the counts sum to N, and for the empty circuit all N counts
\* are on the all-zero bitstring.
C8_ShotCounts ==
    \A t \in Threads :
        (results[t] # <<>> /\ "counts" \in DOMAIN results[t][1] /\ req[t].shots > 0) =>
            LET counts == results[t][1].counts
                n == qc[t][1].num_qubits
            IN /\ \A key \in DOMAIN counts : is_bitstring(key, n) /\ counts[key] > 0
               /\ BagCardinality(counts) = req[t].shots
               /\ qc[t][1].data = <<>> =>
                     DOMAIN counts = {[k \in 1..n |-> "0"]}

finished(t) == pc[t] \in {"idle", "done"}

====
